---- MODULE Spec2Model ----
(***************************************************************************)
(* A model of download_model.py: the fetch / extract / rename / cleanup    *)
(* script for the SSD MobileNet model.  The state is the content of the    *)
(* assets directory (top-level regular files), the remote archive, the     *)
(* archive file handle, the position of the script and what it printed.    *)
(*                                                                         *)
(* File names are sequences of one-character strings, so that the two      *)
(* naming rules of the rename loop (str.endswith, str.lower, "in") are     *)
(* computed on the characters as the script computes them.                 *)
(*                                                                         *)
(* Filesystem calls have their POSIX meaning (os.rename replaces an        *)
(* existing destination).  Entries inside subdirectories are not listed    *)
(* by os.listdir and are left out.                                         *)
(*                                                                         *)
(* Environment: the script has exclusive access to the directory, and a    *)
(* filesystem call on an existing file of the directory succeeds.  The     *)
(* faults modelled are the two the script's inputs can cause: the          *)
(* download fails, or the downloaded bytes are no (sound) ZIP archive.     *)
(***************************************************************************)
EXTENDS Naturals, Sequences, FiniteSets

-----------------------------------------------------------------------------
(* Bounds of the model *)

\* entries already in the assets directory before the first run
MaxPre == 1
\* top-level entries of the remote archive
MaxEntries == 2
\* invocations of the script, one after the other, on the same directory
MaxRuns == 2

-----------------------------------------------------------------------------
(* File names *)

TFLITE == <<".", "t", "f", "l", "i", "t", "e">>
TXT == <<".", "t", "x", "t">>
LABEL == <<"l", "a", "b", "e", "l">>

\* basename of ZIP_PATH
ZIP_NAME == <<"m", "o", "d", "e", "l", ".", "z", "i", "p">>
\* basename of the model destination
MODEL_DST == <<"s", "s", "d", "_", "m", "o", "b", "i", "l", "e", "n", "e", "t", "_", "v", "1">> \o TFLITE
\* basename of the label destination
LABEL_DST == <<"l", "a", "b", "e", "l", "m", "a", "p">> \o TXT

\* the other names of the model's universe
DETECT == <<"d", "e", "t", "e", "c", "t">> \o TFLITE
ALT == <<"a">> \o TFLITE
LABELS_CAP == <<"L", "a", "b", "e", "l", "s">> \o TXT
NOTES == <<"n", "o", "t", "e", "s">> \o TXT
UPPER_EXT == <<"l", "a", "b", "e", "l", "s", ".", "T", "X", "T">>

ArchiveNames == {MODEL_DST, LABEL_DST, DETECT, ALT, LABELS_CAP, NOTES, UPPER_EXT}
Names == ArchiveNames \cup {ZIP_NAME}

-----------------------------------------------------------------------------
(* The string operations of the rename loop *)

UpperCase == <<"A", "B", "C", "D", "E", "F", "G", "H", "I", "J", "K", "L", "M",
               "N", "O", "P", "Q", "R", "S", "T", "U", "V", "W", "X", "Y", "Z">>
LowerCase == <<"a", "b", "c", "d", "e", "f", "g", "h", "i", "j", "k", "l", "m",
               "n", "o", "p", "q", "r", "s", "t", "u", "v", "w", "x", "y", "z">>

\* str.lower() on one character
LowerChar(c) ==
    IF \E i \in 1..26 : UpperCase[i] = c
    THEN LowerCase[CHOOSE i \in 1..26 : UpperCase[i] = c]
    ELSE c

\* str.lower()
lower(s) == [i \in 1..Len(s) |-> LowerChar(s[i])]

\* str.endswith(suffix)
endswith(s, suffix) ==
    /\ Len(suffix) <= Len(s)
    /\ SubSeq(s, Len(s) - Len(suffix) + 1, Len(s)) = suffix

\* sub in s
contains(s, sub) ==
    \E i \in 1..(Len(s) + 1) :
        /\ i + Len(sub) - 1 <= Len(s)
        /\ SubSeq(s, i, i + Len(sub) - 1) = sub

\* variant: the model file is also recognised by the word "model" in its name
IsModelByWord(f) ==
    endswith(f, TFLITE) \/ contains(lower(f), <<"m", "o", "d", "e", "l">>)

\* the condition of the if of the loop
IsModel(f) == endswith(f, TFLITE)

\* variant: the suffix is compared on the lower-cased name as well
IsLabelLowerExt(f) == contains(lower(f), LABEL) /\ endswith(lower(f), TXT)

\* the condition of the elif of the loop (reached only when the if fails)
IsLabel(f) == contains(lower(f), LABEL) /\ endswith(f, TXT)

NoTarget == <<>>

\* variant: the label branch carries the destination of the model branch
TargetLabelAsModel(f) ==
    IF IsModel(f) THEN MODEL_DST
    ELSE IF IsLabel(f) THEN MODEL_DST
    ELSE NoTarget

\* the destination the loop body moves entry f to, NoTarget when it moves nothing
Target(f) ==
    IF IsModel(f) THEN MODEL_DST
    ELSE IF IsLabel(f) THEN LABEL_DST
    ELSE NoTarget

-----------------------------------------------------------------------------
(* Files *)

\* a file's content is named by where its bytes come from:
\*   "old"  it was in the directory before the first run
\*   "zip"  the archive entry of that name, fully extracted
\*   "part" the archive entry of that name, cut short by a failed extraction
\*   "url"  the complete download; "cut": a download that broke off
Absent == [o |-> "none", n |-> <<>>]
Old(n) == [o |-> "old", n |-> n]
Zip(n) == [o |-> "zip", n |-> n]
Part(n) == [o |-> "part", n |-> n]
Url == [o |-> "url", n |-> ZIP_NAME]
Cut == [o |-> "cut", n |-> ZIP_NAME]

EmptyDir == [n \in Names |-> Absent]
Present(d) == {n \in Names : d[n] # Absent}

\* variant: a copy, the source stays
MoveCopy(d, src, dst) == [d EXCEPT ![dst] = d[src]]

\* variant: an existing destination is kept, the move is skipped
MoveKeepFirst(d, src, dst) ==
    IF src = dst \/ d[dst] # Absent THEN d
    ELSE [d EXCEPT ![dst] = d[src], ![src] = Absent]

\* shutil.move(src, dst) on two regular files of one directory: os.rename,
\* which replaces dst, and does nothing when src and dst are the same file
Move(d, src, dst) ==
    IF src = dst THEN d
    ELSE [d EXCEPT ![dst] = d[src], ![src] = Absent]

\* variant: nothing is removed
RemoveNothing(d, n) == d

\* os.remove(path)
Remove(d, n) == [d EXCEPT ![n] = Absent]

-----------------------------------------------------------------------------
(* State *)

VARIABLES
    pc,         \* position of the script
    err,        \* the exception that ended the run, "none" when there is none
    dir,        \* the assets directory: name -> content
    archive,    \* the top-level entry names of the remote archive
    kind,       \* "valid", "corrupt" (a ZIP with a bad entry) or "notzip"
    handle,     \* the ZipFile handle: "open" or "closed"
    todo,       \* the entries of the listing the loop has not visited yet
    snap,       \* the directory as it was when it was listed
    out,        \* the lines printed in this run
    downloads,  \* calls of urlretrieve in this run
    extracted,  \* entries extracted in this run
    moved,      \* the moves of this run, in order: [src, dst]
    removed,    \* os.remove(ZIP_PATH) was called in this run
    run,        \* number of the current invocation
    orig,       \* the directory before the first run
    prev        \* the directory at the start of the current run

vars == <<pc, err, dir, archive, kind, handle, todo, snap, out, downloads,
          extracted, moved, removed, run, orig, prev>>

SubsetsUpTo(S, k) == {T \in SUBSET S : Cardinality(T) <= k}

Init ==
    /\ pc = "start"
    /\ err = "none"
    /\ \E pre \in SubsetsUpTo(Names, MaxPre) :
           dir = [n \in Names |-> IF n \in pre THEN Old(n) ELSE Absent]
    /\ kind \in {"valid", "corrupt", "notzip"}
    /\ archive \in SubsetsUpTo(ArchiveNames, MaxEntries)
    /\ kind = "notzip" => archive = {}
    /\ kind = "corrupt" => archive # {}
    /\ handle = "closed"
    /\ todo = {}
    /\ snap = EmptyDir
    /\ out = <<>>
    /\ downloads = 0
    /\ extracted = {}
    /\ moved = <<>>
    /\ removed = FALSE
    /\ run = 1
    /\ orig = dir
    /\ prev = dir

-----------------------------------------------------------------------------
(* The steps of the script *)

\* urlretrieve returns: the archive is written to ZIP_PATH
DownloadOk ==
    /\ pc = "start"
    /\ downloads' = downloads + 1
    /\ dir' = [dir EXCEPT ![ZIP_NAME] = Url]
    /\ out' = out \o <<"Downloading", "Download complete">>
    /\ pc' = "downloaded"
    /\ UNCHANGED <<err, archive, kind, handle, todo, snap, extracted, moved,
                   removed, run, orig, prev>>

\* variant: the failed download is caught and the download is tried again
DownloadRetry ==
    /\ pc = "start"
    /\ downloads < 2
    /\ downloads' = downloads + 1
    /\ dir' = [dir EXCEPT ![ZIP_NAME] = Cut]
    /\ out' = out \o <<"Downloading">>
    /\ err' = "URLError"
    /\ pc' = "start"
    /\ UNCHANGED <<archive, kind, handle, todo, snap, extracted, moved,
                   removed, run, orig, prev>>

\* urlretrieve raises: nothing was written, or the file holds what arrived
DownloadFail ==
    /\ pc = "start"
    /\ downloads' = downloads + 1
    /\ \/ dir' = dir
       \/ dir' = [dir EXCEPT ![ZIP_NAME] = Cut]
    /\ out' = out \o <<"Downloading">>
    /\ err' = "URLError"
    /\ pc' = "failed"
    /\ UNCHANGED <<archive, kind, handle, todo, snap, extracted, moved,
                   removed, run, orig, prev>>

\* ZipFile(ZIP_PATH, 'r'): the constructor closes the file itself when the
\* bytes are no ZIP archive, and raises
OpenArchive ==
    /\ pc = "downloaded"
    /\ out' = out \o <<"Extracting">>
    /\ IF kind = "notzip"
       THEN /\ handle' = "closed"
            /\ err' = "BadZipFile"
            /\ pc' = "failed"
       ELSE /\ handle' = "open"
            /\ err' = err
            /\ pc' = "extracting"
    /\ UNCHANGED <<dir, archive, kind, todo, snap, downloads, extracted, moved,
                   removed, run, orig, prev>>

\* extractall writes one more entry
ExtractEntry ==
    /\ pc = "extracting"
    /\ \E n \in archive \ extracted :
           /\ kind = "corrupt" => Cardinality(archive \ extracted) > 1
           /\ dir' = [dir EXCEPT ![n] = Zip(n)]
           /\ extracted' = extracted \cup {n}
    /\ UNCHANGED <<pc, err, archive, kind, handle, todo, snap, out, downloads,
                   moved, removed, run, orig, prev>>

\* variant: the extraction error is swallowed and the script goes on
ExtractFailIgnored ==
    /\ pc = "extracting"
    /\ kind = "corrupt"
    /\ \E n \in archive \ extracted :
           \/ dir' = dir
           \/ dir' = [dir EXCEPT ![n] = Part(n)]
    /\ handle' = "closed"
    /\ pc' = "extracted"
    /\ UNCHANGED <<err, archive, kind, todo, snap, out, downloads, extracted,
                   moved, removed, run, orig, prev>>

\* variant: the archive is opened without a with statement, and the error
\* leaves it open
ExtractFailLeak ==
    /\ pc = "extracting"
    /\ kind = "corrupt"
    /\ \E n \in archive \ extracted :
           \/ dir' = dir
           \/ dir' = [dir EXCEPT ![n] = Part(n)]
    /\ err' = "BadZipFile"
    /\ pc' = "failed"
    /\ UNCHANGED <<archive, kind, handle, todo, snap, out, downloads,
                   extracted, moved, removed, run, orig, prev>>

\* extractall raises on a bad entry, before or after it wrote a part of it;
\* the with statement closes the handle on the way out
ExtractFail ==
    /\ pc = "extracting"
    /\ kind = "corrupt"
    /\ \E n \in archive \ extracted :
           \/ dir' = dir
           \/ dir' = [dir EXCEPT ![n] = Part(n)]
    /\ handle' = "closed"
    /\ err' = "BadZipFile"
    /\ pc' = "failed"
    /\ UNCHANGED <<archive, kind, todo, snap, out, downloads, extracted, moved,
                   removed, run, orig, prev>>

\* extractall returns and the with statement closes the handle
ExtractDone ==
    /\ pc = "extracting"
    /\ kind = "valid"
    /\ extracted = archive
    /\ handle' = "closed"
    /\ pc' = "extracted"
    /\ UNCHANGED <<err, dir, archive, kind, todo, snap, out, downloads,
                   extracted, moved, removed, run, orig, prev>>

\* os.listdir(ASSETS_DIR): the names of the directory, once
ListDir ==
    /\ pc = "extracted"
    /\ todo' = Present(dir)
    /\ snap' = dir
    /\ pc' = "renaming"
    /\ UNCHANGED <<err, dir, archive, kind, handle, out, downloads, extracted,
                   moved, removed, run, orig, prev>>

\* one pass of the loop body; listdir's order is unspecified, so the next
\* entry is any entry of the listing not visited yet
RenameStep ==
    /\ pc = "renaming"
    /\ \E f \in todo :
           /\ todo' = todo \ {f}
           /\ IF Target(f) = NoTarget
              THEN UNCHANGED <<pc, err, dir, out, moved>>
              ELSE IF dir[f] = Absent
              THEN /\ err' = "FileNotFoundError"
                   /\ pc' = "failed"
                   /\ UNCHANGED <<dir, out, moved>>
              ELSE /\ dir' = Move(dir, f, Target(f))
                   /\ moved' = Append(moved, [src |-> f, dst |-> Target(f)])
                   /\ out' = Append(out, IF IsModel(f) THEN "Model saved"
                                                       ELSE "Labels saved")
                   /\ UNCHANGED <<pc, err>>
    /\ UNCHANGED <<archive, kind, handle, snap, downloads, extracted, removed,
                   run, orig, prev>>

\* os.remove(ZIP_PATH) and the last print
Cleanup ==
    /\ pc = "renaming"
    /\ todo = {}
    /\ removed' = TRUE
    /\ IF dir[ZIP_NAME] = Absent
       THEN /\ err' = "FileNotFoundError"
            /\ pc' = "failed"
            /\ UNCHANGED <<dir, out>>
       ELSE /\ dir' = Remove(dir, ZIP_NAME)
            /\ out' = Append(out, "Done")
            /\ pc' = "done"
            /\ err' = err
    /\ UNCHANGED <<archive, kind, handle, todo, snap, downloads, extracted,
                   moved, run, orig, prev>>

\* the script is run again on the directory a successful run left:
\* os.makedirs(ASSETS_DIR, exist_ok=True) keeps the directory as it is
Rerun ==
    /\ pc = "done"
    /\ run < MaxRuns
    /\ run' = run + 1
    /\ prev' = dir
    /\ pc' = "start"
    /\ todo' = {}
    /\ snap' = EmptyDir
    /\ out' = <<>>
    /\ downloads' = 0
    /\ extracted' = {}
    /\ moved' = <<>>
    /\ removed' = FALSE
    /\ UNCHANGED <<err, dir, archive, kind, handle, orig>>

Next ==
    \/ DownloadOk
    \/ DownloadFail
    \/ OpenArchive
    \/ ExtractEntry
    \/ ExtractFail
    \/ ExtractDone
    \/ ListDir
    \/ RenameStep
    \/ Cleanup
    \/ Rerun

Spec == Init /\ [][Next]_vars

-----------------------------------------------------------------------------
(* The vocabulary of the properties *)

\* the names of the universe by the rule they fall under, written out
ModelRuleNames == {MODEL_DST, DETECT, ALT}
LabelRuleNames == {LABEL_DST, LABELS_CAP}
NeitherRuleNames == {NOTES, UPPER_EXT, ZIP_NAME}
Rules == {[names |-> ModelRuleNames, canon |-> MODEL_DST],
          [names |-> LabelRuleNames, canon |-> LABEL_DST]}
Canonical == {MODEL_DST, LABEL_DST}

Printed(line) == \E i \in 1..Len(out) : out[i] = line
Sources == {moved[i].src : i \in 1..Len(moved)}
Destinations == {moved[i].dst : i \in 1..Len(moved)}

\* the loop has visited every entry of the listing
RenameOver == (pc = "renaming" /\ todo = {}) \/ pc = "done"

\* the sources of the moves made under rule r, in order
MovedUnder(r) == SelectSeq(moved, LAMBDA m : m.src \in r.names)

TypeOK ==
    /\ pc \in {"start", "downloaded", "extracting", "extracted", "renaming",
               "done", "failed"}
    /\ err \in {"none", "URLError", "BadZipFile", "FileNotFoundError"}
    /\ handle \in {"open", "closed"}
    /\ todo \subseteq Names
    /\ extracted \subseteq archive
    /\ run \in 1..MaxRuns
    /\ ModelRuleNames \cup LabelRuleNames \cup NeitherRuleNames = Names

-----------------------------------------------------------------------------
(* C1 *)

C1_OneEach ==
    /\ Cardinality(archive \cap ModelRuleNames) = 1
    /\ Cardinality(archive \cap LabelRuleNames) = 1

\* C1: when the download succeeds and the archive extracts to exactly one
\* top-level .tflite entry and exactly one label .txt entry, the run does not
\* fail after the extraction, and when it is done both canonical files are in
\* the directory and model.zip is not.
C1_OneEach_Yields_Both ==
    C1_OneEach =>
        /\ err \in {"none", "URLError", "BadZipFile"}
        /\ pc = "done" =>
              /\ err = "none"
              /\ dir[MODEL_DST] # Absent
              /\ dir[LABEL_DST] # Absent
              /\ dir[ZIP_NAME] = Absent

C1_Witness ==
    /\ pc = "done"
    /\ run = 1
    /\ archive = {DETECT, LABELS_CAP}
    /\ dir[MODEL_DST] = Zip(DETECT)
    /\ dir[LABEL_DST] = Zip(LABELS_CAP)
    /\ dir[ZIP_NAME] = Absent

-----------------------------------------------------------------------------
(* C2 *)

\* C2 as stated: a second successful run leaves the canonical files with the
\* contents the first run left.
C2_SameContents ==
    (run >= 2 /\ pc = "done") =>
        \A c \in Canonical : dir[c] = prev[c]

\* the archive has no entry under rule r, or exactly one and the directory
\* held no other entry under r before the first run
C2_OneSource(r) ==
    \/ archive \cap r.names = {}
    \/ /\ Cardinality(archive \cap r.names) = 1
       /\ \A n \in r.names \ archive : orig[n] = Absent

\* C2 amended: a run on the directory a successful run left, with the same
\* archive, does not fail once the download succeeded; when it is done the
\* same canonical files exist as before it, no entry under either rule is
\* left under another name, and the canonical file of a rule has the content
\* it had before the run when the archive has no entry under that rule, or
\* exactly one and the directory held no other such entry before the first run.
C2_SecondRun ==
    run >= 2 =>
        /\ err \in {"none", "URLError"}
        /\ pc = "done" =>
              /\ \A c \in Canonical : (dir[c] = Absent) <=> (prev[c] = Absent)
              /\ \A r \in Rules : \A n \in r.names \ {r.canon} : dir[n] = Absent
              /\ \A r \in Rules : C2_OneSource(r) => dir[r.canon] = prev[r.canon]

C2_Witness ==
    /\ run = 2
    /\ pc = "done"
    /\ archive = {DETECT, LABEL_DST}
    /\ Len(moved) = 3
    /\ dir[MODEL_DST] = Zip(DETECT)
    /\ prev[MODEL_DST] = Zip(DETECT)
    /\ dir[LABEL_DST] = Zip(LABEL_DST)

-----------------------------------------------------------------------------
(* C3 *)

\* C3 as stated: when the downloaded bytes are no valid archive and the run
\* has failed at the extract step, no canonical file exists that did not
\* exist before the run.
C3_NoCanonicalCreated ==
    (kind # "valid" /\ pc = "failed" /\ err = "BadZipFile") =>
        \A c \in Canonical : prev[c] = Absent => dir[c] = Absent

\* C3 amended: when the downloaded bytes are no valid archive, the run never
\* gets past the extract step: nothing is moved, model.zip is not removed,
\* "Done" is not printed, the only error is the one of the extract step, and
\* once it has failed there every file other than model.zip is as it was
\* before the run or is an entry of the archive written under its own name
\* (so a canonical file is created only when the archive has an entry of
\* that name).
C3_InvalidArchive ==
    kind # "valid" =>
        /\ pc \in {"start", "downloaded", "extracting", "failed"}
        /\ err \in {"none", "URLError", "BadZipFile"}
        /\ moved = <<>>
        /\ ~removed
        /\ ~Printed("Done")
        /\ (pc = "failed" /\ err = "BadZipFile") =>
              /\ dir[ZIP_NAME] = Url
              /\ \A n \in Names \ {ZIP_NAME} :
                     \/ dir[n] = prev[n]
                     \/ n \in archive /\ dir[n] \in {Zip(n), Part(n)}

C3_Witness ==
    /\ pc = "failed"
    /\ err = "BadZipFile"
    /\ kind = "corrupt"
    /\ extracted = {LABEL_DST}
    /\ prev[LABEL_DST] = Absent
    /\ dir[LABEL_DST] = Zip(LABEL_DST)
    /\ Printed("Extracting")

-----------------------------------------------------------------------------
(* C4 *)

\* C4: the run ends with success and "Done" printed only when both canonical
\* files are in the directory.
C4_DoneHasBoth ==
    (pc = "done" /\ Printed("Done")) =>
        /\ dir[MODEL_DST] # Absent
        /\ dir[LABEL_DST] # Absent

-----------------------------------------------------------------------------
(* C5 *)

\* C5 as stated: when the archive has no top-level entry ending in .tflite,
\* the canonical model file is absent after the run.
C5_NoModelInArchive ==
    (pc = "done" /\ archive \cap ModelRuleNames = {}) =>
        dir[MODEL_DST] = Absent

\* C5 amended: when the archive has no top-level entry ending in .tflite and
\* the directory held no entry ending in .tflite before the run, the
\* canonical model file is absent throughout the run and after it, and the
\* run does not fail once the archive is extracted.
C5_NoModelAnywhere ==
    (/\ archive \cap ModelRuleNames = {}
     /\ \A n \in ModelRuleNames : prev[n] = Absent) =>
        /\ dir[MODEL_DST] = Absent
        /\ err \in {"none", "URLError", "BadZipFile"}

C5_Witness ==
    /\ pc = "done"
    /\ err = "none"
    /\ Printed("Done")
    /\ archive = {LABELS_CAP, NOTES}
    /\ \A n \in ModelRuleNames : prev[n] = Absent
    /\ dir[MODEL_DST] = Absent
    /\ dir[LABEL_DST] = Zip(LABELS_CAP)

-----------------------------------------------------------------------------
(* C6 *)

\* C6: once the download has failed the run is over: it was the only
\* download, nothing is extracted, moved or removed, "Done" is not printed,
\* the directory is as it was but for model.zip, and no step follows.
C6_DownloadFailureAborts ==
    err = "URLError" =>
        /\ pc = "failed"
        /\ downloads = 1
        /\ extracted = {}
        /\ moved = <<>>
        /\ ~removed
        /\ handle = "closed"
        /\ ~Printed("Extracting")
        /\ ~Printed("Done")
        /\ \A n \in Names \ {ZIP_NAME} : dir[n] = prev[n]
        /\ ~ENABLED Next

C6_Witness ==
    /\ err = "URLError"
    /\ pc = "failed"
    /\ downloads = 1
    /\ dir[ZIP_NAME] = Cut

-----------------------------------------------------------------------------
(* C7 *)

\* C7 as stated: of several entries under one rule only the first visited is
\* moved: the canonical file has its content and the later ones keep their
\* names.
C7_FirstMatchWins ==
    RenameOver =>
        \A r \in Rules :
            LET ms == MovedUnder(r) IN
            Len(ms) > 0 =>
                /\ dir[r.canon] = snap[ms[1].src]
                /\ \A i \in 2..Len(ms) :
                       ms[i].src # r.canon => dir[ms[i].src] = snap[ms[i].src]

\* the last source moved under rule r that is not the canonical name itself
C7_LastSource(r) ==
    LET ms == SelectSeq(MovedUnder(r), LAMBDA m : m.src # r.canon)
    IN  IF Len(ms) > 0 THEN ms[Len(ms)].src ELSE r.canon

\* C7 amended: every entry under a rule is moved, in the order visited, onto
\* the canonical name: after the loop the canonical file has the content of
\* the last entry visited under the rule other than the canonical name itself
\* (its own content when there is no other), and no entry under the rule is
\* left under another name.
C7_EveryMatchMoved ==
    RenameOver =>
        \A r \in Rules :
            /\ \A n \in r.names : snap[n] # Absent => n \in Sources
            /\ \A n \in r.names \ {r.canon} : dir[n] = Absent
            /\ Len(MovedUnder(r)) > 0 => dir[r.canon] = snap[C7_LastSource(r)]
            /\ Len(MovedUnder(r)) = 0 => dir[r.canon] = Absent

C7_Witness ==
    /\ pc = "renaming"
    /\ todo = {}
    /\ Len(moved) = 2
    /\ moved[1].src = DETECT
    /\ moved[2].src = ALT
    /\ dir[MODEL_DST] = snap[ALT]
    /\ dir[DETECT] = Absent

-----------------------------------------------------------------------------
(* C8 *)

\* C8: while and after the loop runs, every entry under neither rule has the
\* name and content it had when the directory was listed, and is neither
\* source nor destination of a move (model.zip until the cleanup removes it).
C8_OthersUntouched ==
    pc \in {"renaming", "done"} =>
        /\ \A n \in NeitherRuleNames \ {ZIP_NAME} : dir[n] = snap[n]
        /\ pc = "renaming" => dir[ZIP_NAME] = snap[ZIP_NAME]
        /\ Sources \cap NeitherRuleNames = {}
        /\ Destinations \cap NeitherRuleNames = {}

C8_Witness ==
    /\ pc = "renaming"
    /\ todo = {}
    /\ Len(moved) >= 1
    /\ snap[UPPER_EXT] # Absent
    /\ dir[UPPER_EXT] = snap[UPPER_EXT]
    /\ snap[NOTES] # Absent
    /\ dir[NOTES] = snap[NOTES]

-----------------------------------------------------------------------------
(* C9 *)

\* C9: the archive handle is open only while extractall runs: it is closed
\* when the extraction has succeeded or failed, in every later step, when
\* model.zip is removed and when the run has ended.
C9_HandleReleased ==
    /\ handle = "open" => pc = "extracting"
    /\ (pc \in {"extracted", "renaming", "done", "failed"} \/ removed) =>
           handle = "closed"

C9_Witness ==
    /\ pc = "failed"
    /\ err = "BadZipFile"
    /\ kind = "corrupt"
    /\ extracted # {}
    /\ handle = "closed"

-----------------------------------------------------------------------------
(* C10 *)

\* C10: the loop never moves, overwrites or removes model.zip; every entry it
\* has still to move exists; so no step fails on a missing file, and the
\* cleanup finds model.zip and removes it.
C10_ArchiveSurvivesRename ==
    /\ err # "FileNotFoundError"
    /\ pc = "renaming" =>
          /\ dir[ZIP_NAME] = Url
          /\ ZIP_NAME \notin Sources \cup Destinations
          /\ \A f \in todo \cap (ModelRuleNames \cup LabelRuleNames) :
                 dir[f] # Absent
    /\ removed => (pc = "done" /\ dir[ZIP_NAME] = Absent)

C10_Witness ==
    /\ pc = "done"
    /\ removed
    /\ snap[MODEL_DST] # Absent
    /\ snap[ZIP_NAME] = Url
    /\ Len(moved) >= 2
    /\ MODEL_DST \in Sources
    /\ dir[ZIP_NAME] = Absent

====
